---- MODULE Spec2Model ----
(***************************************************************************)
(* Model of the SSH host-certificate issuance pipeline:                    *)
(*   - the HTTP handler Enroll / EnrollHost / signHost and the two TLS     *)
(*     predicates clientAuthenticated / clientHostnameMatches              *)
(*     (src/unnamed/part_000),                                             *)
(*   - the MySQL storage methods RecordIssuance and QueryHostkeys          *)
(*     (src/pkg/server/storage/mysql.go).                                  *)
(*                                                                         *)
(* Every Go string is a sequence of tokens (TLA+ strings); "\n" is the     *)
(* newline token, a key token stands for "<type> <base64>", " c" for a     *)
(* trailing comment and "#" for text that is no key.  Both columns of the  *)
(* hostkeys table hold such strings.                                       *)
(***************************************************************************)
EXTENDS Integers, Sequences, FiniteSets, TLC

\* ------------------------------------------------------------------ bounds
\* Number of request-handling units (HTTP requests and storage calls) that
\* may be in flight or finished in one behaviour.
MaxProcs == 2

Procs == 1..MaxProcs

\* Number of RecordGitHubMapping calls the sync job makes in one behaviour.
MaxSyncCalls == 2

\* ------------------------------------------------------- program constants
sshHostCertificateType == 2
\* golang.org/x/crypto/ssh: UserCert = 1, HostCert = 2
sshUserCert == 1
sshHostCert == 2
mysqlHostCert == "host_cert"
mysqlUserCert == "user_cert"

StatusOK == 200
StatusUnauthorized == 401
StatusForbidden == 403
StatusInternalServerError == 500

\* ------------------------------------------------------------- input sets
H1 == <<"db1", ".internal", ".example.com">>
H2 == <<"web">>
Hostnames == {H1, H2}

Keys == {"k1", "k2"}
NoKey == ""

\* r.TLS.VerifiedChains: a sequence of chains, each chain a sequence of
\* certificates (leaf first), each certificate given by the set of host
\* names it asserts.
ChainInputs ==
  { << >>,
    << <<{H1}, {}>> >>,
    << <<{H2}, {}>>, <<{H1}, {}>> >> }

\* Request bodies: text that holds no key, the canonical authorized-key
\* line of k1, and k2 after a leading newline, with a comment and without
\* the final newline.
BodyInputs ==
  { <<"#">>,
    <<"k1", "\n">>,
    <<"\n", "k2", " c">> }

CertTypeInputs == {sshUserCert, sshHostCert, 3}

\* ---------------------------------------------------------- pure functions

\* strings.TrimLeft(s, "\n")
RECURSIVE TrimLeftNewlines(_)
TrimLeftNewlines(s) ==
  IF s # << >> /\ Head(s) = "\n" THEN TrimLeftNewlines(Tail(s)) ELSE s

\* the text after the first line of s
RECURSIVE SkipLine(_)
SkipLine(s) ==
  IF s = << >> THEN << >>
  ELSE IF Head(s) = "\n" THEN Tail(s)
  ELSE SkipLine(Tail(s))

\* ssh.ParseAuthorizedKey: the key of the first line that parses as a
\* key; empty lines and lines that are no key are skipped; NoKey stands for
\* the error "no key found".
RECURSIVE ParseAuthorizedKey(_)
ParseAuthorizedKey(s) ==
  IF s = << >> THEN NoKey
  ELSE IF Head(s) \in Keys THEN Head(s)
  ELSE ParseAuthorizedKey(SkipLine(s))

\* ssh.MarshalAuthorizedKey: "<type> <base64>\n", no comment
MarshalAuthorizedKey(k) == <<k, "\n">>

parseErrIgnored(data) == FALSE

\* EnrollHost: err != nil after ssh.ParseAuthorizedKey(data)
parseErr(data) == ParseAuthorizedKey(data) = NoKey

clientAuthenticatedAlways(chains) == TRUE

clientAuthenticated(chains) == Len(chains) > 0

\* x509 Certificate.VerifyHostname(hostname) == nil
VerifyHostname(cert, hostname) == hostname \in cert

clientHostnameMatchesAnyChain(hostname, chains) ==
  \E i \in 1..Len(chains) : VerifyHostname(chains[i][1], hostname)

clientHostnameMatches(hostname, chains) ==
  IF Len(chains) = 0 THEN FALSE
  ELSE VerifyHostname(chains[1][1], hostname)

certTypeToMySQLDefaultHost(certType) ==
  IF certType = sshUserCert THEN mysqlUserCert ELSE mysqlHostCert

\* certTypeToMySQL: the enum value, or "" for the error
certTypeToMySQL(certType) ==
  IF certType = sshHostCert THEN mysqlHostCert
  ELSE IF certType = sshUserCert THEN mysqlUserCert
  ELSE ""

\* ------------------------------------------------------------------ state
VARIABLES
  driver,        \* c.db.Driver(): "sqlite3" or "mysql", fixed at startup
  hostkeys,      \* the hostkeys table: a set of rows
  nextId,        \* the table's next auto-increment identifier
  pc,            \* per unit: "idle", "read", "exec", "sign", "done"
  req,           \* per unit: the operation and its arguments
  body,          \* per unit: data returned by ioutil.ReadAll(r.Body)
  bodyRead,      \* per unit: ReadAll has been called
  pubkey,        \* per unit: parsed public key
  result,        \* per unit: sql.Result of the Exec (its LastInsertId)
  cert,          \* per unit: the certificate signHost returned
  resp,          \* per unit: what the caller gets back
  writes,        \* per unit: number of Exec statements that were applied
  conf,          \* c.conf: StripSuffix and Aliases, fixed at startup
  github_user_mappings,  \* the github_user_mappings table: a set of rows
  sync,          \* the caller of RecordGitHubMapping (the sync job)
  qry            \* the last QueryGitHubMapping call and what it returned

enrollVars == <<driver, hostkeys, nextId, pc, req, body, bodyRead, pubkey,
                result, cert, resp, writes>>
mappingVars == <<github_user_mappings, sync, qry>>
vars == <<driver, hostkeys, nextId, pc, req, body, bodyRead, pubkey, result,
          cert, resp, writes, conf, github_user_mappings, sync, qry>>

NoReq == [op |-> "none", hostname |-> << >>, chains |-> << >>,
          certType |-> 0, key |-> NoKey]
NoCert == [Key |-> NoKey, Serial |-> 0, CertType |-> 0, KeyId |-> << >>,
           ValidPrincipals |-> << >>]
NoResp == [status |-> 0, body |-> << >>, serial |-> 0, err |-> ""]

\* ------------------------------------------------------------- the table
\* Column cert_type is not named by EnrollHost's statements; they get the
\* column default.
DefaultCertType == mysqlHostCert

\* A row.  issuedTo is history: the principal of the issuance whose write
\* produced the row's current content.
Row(id, hostname, pk, typ, who) ==
  [id |-> id, hostname |-> hostname, pubkey |-> pk, cert_type |-> typ,
   issuedTo |-> who]

\* The unique key of the table is (hostname, cert_type).
Conflicts(tbl, hostname, typ) ==
  {r \in tbl : r.hostname = hostname /\ r.cert_type = typ}

\* SQLite "INSERT OR REPLACE": rows that conflict are deleted and the new
\* row is inserted under a new identifier.
InsertOrReplace(tbl, id, hostname, pk, typ, who) ==
  (tbl \ Conflicts(tbl, hostname, typ)) \cup {Row(id, hostname, pk, typ, who)}

\* MySQL "INSERT ... ON DUPLICATE KEY UPDATE pubkey = ?": the row that
\* conflicts keeps its identifier and gets the new pubkey; without a
\* conflict a row is inserted.
InsertOnDuplicateKeyUpdate(tbl, id, hostname, pk, typ, who) ==
  IF Conflicts(tbl, hostname, typ) # {}
  THEN {IF r \in Conflicts(tbl, hostname, typ)
        THEN [r EXCEPT !.pubkey = pk, !.issuedTo = who] ELSE r : r \in tbl}
  ELSE tbl \cup {Row(id, hostname, pk, typ, who)}

\* result.LastInsertId() after the MySQL upsert.  After an insert it is the
\* new row's identifier.  In the ON DUPLICATE KEY case it is unreliable
\* ("This is broken!"): the server may report the updated row's identifier,
\* 0 (row left as it was), or the identifier of the last inserted row.
MysqlLastInsertIds(tbl, id, hostname, typ) ==
  IF Conflicts(tbl, hostname, typ) # {}
  THEN {r.id : r \in Conflicts(tbl, hostname, typ)} \cup {0, id - 1}
  ELSE {id}

\* The rows of a result set, one entry per selected row.  The statement has
\* no ORDER BY; the rows are listed by id.
RECURSIVE RowsInIdOrder(_)
RowsInIdOrder(rows) ==
  IF rows = {} THEN << >>
  ELSE LET r == CHOOSE x \in rows : \A y \in rows : x.id <= y.id
       IN  <<r>> \o RowsInIdOrder(rows \ {r})

QueryHostkeysAllTypes ==
  LET q == RowsInIdOrder(hostkeys)
  IN  [i \in 1..Len(q) |-> <<q[i].hostname, q[i].pubkey>>]

\* QueryHostkeys: SELECT hostname, pubkey FROM hostkeys WHERE cert_type =
\* 'host_cert'
QueryHostkeys ==
  LET q == RowsInIdOrder({x \in hostkeys : x.cert_type = mysqlHostCert})
  IN  [i \in 1..Len(q) |-> <<q[i].hostname, q[i].pubkey>>]

\* ---------------------------------------------------------------- signHost
\* KeyType: signedCert.Key.Type()
KeyType(k) == IF k = "k1" THEN "ssh-rsa" ELSE "ssh-ed25519"

\* c.conf: the suffix to strip and the aliases per hostname
confStripSuffix == <<".internal", ".example.com">>
confAliases == [h \in {H2} |-> << <<"www">>, <<"web", ".ext">> >>]
DefaultConf == [StripSuffix |-> confStripSuffix, Aliases |-> confAliases]

\* strings.HasSuffix, strings.TrimSuffix
HasSuffix(s, suffix) ==
  /\ Len(suffix) <= Len(s)
  /\ SubSeq(s, Len(s) - Len(suffix) + 1, Len(s)) = suffix
TrimSuffix(s, suffix) ==
  IF HasSuffix(s, suffix) THEN SubSeq(s, 1, Len(s) - Len(suffix)) ELSE s

\* The values of c.conf explored when signHost is examined on its own.
StripSuffixInputs ==
  { << >>, confStripSuffix, <<".example.com">>, <<".internal">>, <<"web">>,
    <<"x", "db1", ".internal", ".example.com">> }
AliasesInputs ==
  { [h \in {} |-> << >>], confAliases,
    [h \in {H1} |-> << <<"db">> >>],
    [h \in Hostnames |-> << <<"a1">>, <<"a2">> >>] }
ConfInputs == [StripSuffix : StripSuffixInputs, Aliases : AliasesInputs]

principalsSuffixUnchecked(hostname) ==
  <<hostname>>
  \o (IF HasSuffix(hostname, conf.StripSuffix)
      THEN <<TrimSuffix(hostname, conf.StripSuffix)>> ELSE << >>)
  \o (IF hostname \in DOMAIN conf.Aliases THEN conf.Aliases[hostname] ELSE << >>)

\* signHost: the principal list
principals(hostname) ==
  <<hostname>>
  \o (IF conf.StripSuffix # << >> /\ HasSuffix(hostname, conf.StripSuffix)
      THEN <<TrimSuffix(hostname, conf.StripSuffix)>> ELSE << >>)
  \o (IF hostname \in DOMAIN conf.Aliases THEN conf.Aliases[hostname] ELSE << >>)

\* signHost: the template that is signed.  The nonce and the validity
\* window (time.Now, conf.CertDuration) are left out of the certificate
\* value; their failures are the "entropy" and "duration" outcomes of
\* SignAndReply.
signHostUnbound(hostname, serial, key) ==
  [Key |-> key, Serial |-> 0, CertType |-> sshHostCertificateType,
   KeyId |-> hostname, ValidPrincipals |-> principals(hostname)]

signHost(hostname, serial, key) ==
  [Key |-> key, Serial |-> serial, CertType |-> sshHostCertificateType,
   KeyId |-> hostname, ValidPrincipals |-> principals(hostname)]

\* --------------------------------------------------------------- responses
Reply(status, text) == [status |-> status, body |-> text, serial |-> 0, err |-> ""]
InternalError(e) ==
  [status |-> StatusInternalServerError, body |-> <<e>>, serial |-> 0, err |-> e]

\* ------------------------------------------- the github_user_mappings table
Identities == {"alice", "bob"}
GithubUsers == {"al", "bo"}

\* mapping map[string]string: every map from a set of identities to users
MappingInputs ==
  UNION {[D -> GithubUsers] : D \in SUBSET Identities}

Range(q) == {q[i] : i \in DOMAIN q}

\* The orders in which "for ssoIdentity, githubUser := range mapping" may
\* visit the keys.
RangeOrders(mapping) ==
  {q \in [1..Cardinality(DOMAIN mapping) -> DOMAIN mapping] :
     \A i, j \in DOMAIN q : i # j => q[i] # q[j]}

\* deleteEntries / insertEntries and deleteValues / insertValues as the
\* loop builds them
deleteEntries(order) == [i \in 1..Len(order) |-> "?"]
deleteValues(order) == order
insertEntries(order) == [i \in 1..Len(order) |-> "(?, ?)"]
insertValues(mapping, order) ==
  [i \in 1..(2 * Len(order)) |->
     IF i % 2 = 1 THEN order[(i + 1) \div 2] ELSE mapping[order[i \div 2]]]

\* MySQL rejects "NOT IN ()" and "VALUES " followed by nothing as syntax
\* errors: the joined placeholder list must not be empty.
StatementParses(entries) == Len(entries) > 0

MappingRow(identity, user) == [sso_identity |-> identity, github_username |-> user]

DeleteIn(tbl, values) == {r \in tbl : r.sso_identity \notin Range(values)}

\* "DELETE FROM github_user_mappings WHERE sso_identity NOT IN (...)"
DeleteNotIn(tbl, values) == {r \in tbl : r.sso_identity \in Range(values)}

\* "REPLACE INTO github_user_mappings (sso_identity, github_username)
\* VALUES (?, ?), ...": row by row, the row with the same sso_identity is
\* deleted and the new row inserted.
RECURSIVE ReplaceInto(_, _)
ReplaceInto(tbl, values) ==
  IF Len(values) < 2 THEN tbl
  ELSE ReplaceInto(
         {r \in tbl : r.sso_identity # values[1]}
            \cup {MappingRow(values[1], values[2])},
         SubSeq(values, 3, Len(values)))

\* QueryGitHubMapping's QueryRow and Scan: the username, or the error of
\* Scan when no row matches.
QueryRow(tbl, ssoIdentity) ==
  LET rows == {r \in tbl : r.sso_identity = ssoIdentity}
  IN  IF rows = {}
      THEN [githubUser |-> "", err |-> "sql: no rows in result set"]
      ELSE [githubUser |-> (CHOOSE r \in rows : TRUE).github_username, err |-> ""]

NoMapping == [i \in {} |-> ""]
SyncIdle == [pc |-> "idle", mapping |-> NoMapping, order |-> << >>,
             before |-> {}, calls |-> 0, fault |-> FALSE, ret |-> "none"]
NoQuery == [ssoIdentity |-> "", githubUser |-> "", err |-> "",
            during |-> "none", calls |-> 0]

\* ------------------------------------------------------------------- Init
\* The table a deployment starts with: empty, or what the driver's own
\* upsert statement of EnrollHost left after H1 and then H2 enrolled with
\* the canonical line of k1 (identifiers 1 and 2).
EnrolledBefore(d) ==
  LET k == MarshalAuthorizedKey("k1")
  IN  IF d = "sqlite3"
      THEN InsertOrReplace(InsertOrReplace({}, 1, k, H1, DefaultCertType, H1),
                           2, k, H2, DefaultCertType, H2)
      ELSE InsertOnDuplicateKeyUpdate(
             InsertOnDuplicateKeyUpdate({}, 1, H1, k, DefaultCertType, H1),
             2, H2, k, DefaultCertType, H2)

Init ==
  /\ driver \in {"sqlite3", "mysql"}
  /\ \/ hostkeys = {} /\ nextId = 1
     \/ hostkeys = EnrolledBefore(driver) /\ nextId = 3
  /\ pc = [p \in Procs |-> "idle"]
  /\ req = [p \in Procs |-> NoReq]
  /\ body = [p \in Procs |-> << >>]
  /\ bodyRead = [p \in Procs |-> FALSE]
  /\ pubkey = [p \in Procs |-> NoKey]
  /\ result = [p \in Procs |-> 0]
  /\ cert = [p \in Procs |-> NoCert]
  /\ resp = [p \in Procs |-> NoResp]
  /\ writes = [p \in Procs |-> 0]
  /\ conf = DefaultConf
  /\ github_user_mappings = {}
  /\ sync = SyncIdle
  /\ qry = NoQuery

\* ---------------------------------------------------------------- actions

\* Enroll, up to the call of EnrollHost: the two AuthGate checks.
EnrollAuth(p) ==
  /\ pc[p] = "idle"
  /\ \E h \in Hostnames, ch \in ChainInputs :
       /\ req' = [req EXCEPT ![p] = [NoReq EXCEPT !.op = "enroll",
                                       !.hostname = h, !.chains = ch]]
       /\ IF ~clientAuthenticated(ch)
          THEN /\ resp' = [resp EXCEPT ![p] =
                     Reply(StatusUnauthorized, <<"no client certificate provided">>)]
               /\ pc' = [pc EXCEPT ![p] = "done"]
          ELSE IF ~clientHostnameMatches(h, ch)
          THEN /\ resp' = [resp EXCEPT ![p] =
                     Reply(StatusForbidden, <<"hostname does not match certificate">>)]
               /\ pc' = [pc EXCEPT ![p] = "done"]
          ELSE /\ resp' = resp
               /\ pc' = [pc EXCEPT ![p] = "read"]
  /\ UNCHANGED <<driver, hostkeys, nextId, body, bodyRead, pubkey, result,
                 cert, writes>>
  /\ UNCHANGED <<conf, github_user_mappings, sync, qry>>

\* EnrollHost: ioutil.ReadAll(r.Body) fails.
ReadBodyFails(p) ==
  /\ pc[p] = "read"
  /\ bodyRead' = [bodyRead EXCEPT ![p] = TRUE]
  /\ resp' = [resp EXCEPT ![p] = InternalError("read")]
  /\ pc' = [pc EXCEPT ![p] = "done"]
  /\ UNCHANGED <<driver, hostkeys, nextId, req, body, pubkey, result, cert,
                 writes>>
  /\ UNCHANGED <<conf, github_user_mappings, sync, qry>>

\* EnrollHost: the body is read and parsed.
ReadBody(p) ==
  /\ pc[p] = "read"
  /\ \E data \in BodyInputs :
       /\ body' = [body EXCEPT ![p] = data]
       /\ bodyRead' = [bodyRead EXCEPT ![p] = TRUE]
       /\ IF parseErr(data)
          THEN /\ resp' = [resp EXCEPT ![p] = InternalError("ssh: no key found")]
               /\ pc' = [pc EXCEPT ![p] = "done"]
               /\ pubkey' = pubkey
          ELSE /\ pubkey' = [pubkey EXCEPT ![p] = ParseAuthorizedKey(data)]
               /\ pc' = [pc EXCEPT ![p] = "exec"]
               /\ resp' = resp
  /\ UNCHANGED <<driver, hostkeys, nextId, req, result, cert, writes>>
  /\ UNCHANGED <<conf, github_user_mappings, sync, qry>>

afterExecIgnoringErr(failed) == "sign"

\* EnrollHost: "if err != nil { return "", err }" behind the Exec; where
\* the request goes next.
afterExec(failed) == IF failed THEN "done" ELSE "sign"

\* EnrollHost: c.db.Exec returns an error; nothing is written.
ExecFails(p) ==
  /\ pc[p] = "exec"
  /\ resp' = [resp EXCEPT ![p] = InternalError("exec")]
  /\ pc' = [pc EXCEPT ![p] = afterExec(TRUE)]
  /\ UNCHANGED <<driver, hostkeys, nextId, req, body, bodyRead, pubkey,
                 result, cert, writes>>
  /\ UNCHANGED <<conf, github_user_mappings, sync, qry>>

\* EnrollHost, SQLite branch:
\*   Exec("INSERT OR REPLACE INTO hostkeys (hostname, pubkey) VALUES (?, ?)",
\*        encodedPubkey, hostname)
ExecSqlite(p) ==
  /\ pc[p] = "exec"
  /\ driver = "sqlite3"
  /\ LET encodedPubkey == TrimLeftNewlines(body[p])
         hostname == req[p].hostname
     IN  hostkeys' = InsertOrReplace(hostkeys, nextId, encodedPubkey, hostname,
                                     DefaultCertType, hostname)
  /\ nextId' = nextId + 1
  /\ result' = [result EXCEPT ![p] = nextId]
  /\ writes' = [writes EXCEPT ![p] = @ + 1]
  /\ pc' = [pc EXCEPT ![p] = afterExec(FALSE)]
  /\ UNCHANGED <<driver, req, body, bodyRead, pubkey, cert, resp>>
  /\ UNCHANGED <<conf, github_user_mappings, sync, qry>>

\* EnrollHost, MySQL branch:
\*   Exec("INSERT INTO hostkeys (hostname, pubkey) VALUES (?, ?)
\*         ON DUPLICATE KEY UPDATE pubkey = ?",
\*        hostname, encodedPubkey, encodedPubkey)
ExecMysql(p) ==
  /\ pc[p] = "exec"
  /\ driver # "sqlite3"
  /\ LET encodedPubkey == TrimLeftNewlines(body[p])
         hostname == req[p].hostname
     IN  /\ hostkeys' = InsertOnDuplicateKeyUpdate(hostkeys, nextId, hostname,
                            encodedPubkey, DefaultCertType, hostname)
         /\ nextId' = IF Conflicts(hostkeys, hostname, DefaultCertType) = {}
                      THEN nextId + 1 ELSE nextId
         /\ \E lid \in MysqlLastInsertIds(hostkeys, nextId, hostname, DefaultCertType) :
              result' = [result EXCEPT ![p] = lid]
  /\ writes' = [writes EXCEPT ![p] = @ + 1]
  /\ pc' = [pc EXCEPT ![p] = afterExec(FALSE)]
  /\ UNCHANGED <<driver, req, body, bodyRead, pubkey, cert, resp>>
  /\ UNCHANGED <<conf, github_user_mappings, sync, qry>>

\* EnrollHost after the Exec: result.LastInsertId(), signHost, encoding,
\* and Enroll's write of the response.  e names the step that fails, ""
\* when none does.
SignAndReply(p) ==
  /\ pc[p] = "sign"
  /\ \E e \in {"", "lastid", "entropy", "duration", "signer"} :
       IF e # ""
       THEN /\ resp' = [resp EXCEPT ![p] = InternalError(e)]
            /\ cert' = cert
       ELSE LET signedCert == signHost(req[p].hostname, result[p], pubkey[p])
            IN  /\ cert' = [cert EXCEPT ![p] = signedCert]
                /\ resp' = [resp EXCEPT ![p] =
                      [status |-> StatusOK,
                       body |-> <<KeyType(signedCert.Key), "-cert-v01@openssh.com ",
                                  "base64">>,
                       serial |-> signedCert.Serial, err |-> ""]]
  /\ pc' = [pc EXCEPT ![p] = "done"]
  /\ UNCHANGED <<driver, hostkeys, nextId, req, body, bodyRead, pubkey,
                 result, writes>>
  /\ UNCHANGED <<conf, github_user_mappings, sync, qry>>

\* MysqlStorage.RecordIssuance(certType, principal, pubkey), one call.
RecordIssuance(p) ==
  /\ pc[p] = "idle"
  /\ driver = "mysql"
  /\ \E certType \in CertTypeInputs, principal \in Hostnames, k \in Keys,
        execErr \in BOOLEAN :
       LET pkdata == MarshalAuthorizedKey(k)
           typ == certTypeToMySQL(certType)
       IN
       /\ req' = [req EXCEPT ![p] = [NoReq EXCEPT !.op = "record",
                     !.hostname = principal, !.certType = certType, !.key = k]]
       /\ IF typ = ""
          THEN /\ resp' = [resp EXCEPT ![p] =
                      [NoResp EXCEPT !.err = "storage: unknown ssh cert type"]]
               /\ UNCHANGED <<hostkeys, nextId, result, writes>>
          ELSE IF execErr
          THEN /\ resp' = [resp EXCEPT ![p] =
                      [NoResp EXCEPT !.err = "error recording issuance"]]
               /\ UNCHANGED <<hostkeys, nextId, result, writes>>
          ELSE /\ hostkeys' = InsertOnDuplicateKeyUpdate(hostkeys, nextId,
                                  principal, pkdata, typ, principal)
               /\ nextId' = IF Conflicts(hostkeys, principal, typ) = {}
                            THEN nextId + 1 ELSE nextId
               /\ writes' = [writes EXCEPT ![p] = @ + 1]
               /\ \E lid \in MysqlLastInsertIds(hostkeys, nextId, principal, typ) :
                    /\ result' = [result EXCEPT ![p] = lid]
                    /\ resp' = [resp EXCEPT ![p] = [NoResp EXCEPT !.serial = lid]]
  /\ pc' = [pc EXCEPT ![p] = "done"]
  /\ UNCHANGED <<driver, body, bodyRead, pubkey, cert>>
  /\ UNCHANGED <<conf, github_user_mappings, sync, qry>>

Next ==
  \E p \in Procs :
    \/ EnrollAuth(p)
    \/ ReadBodyFails(p)
    \/ ReadBody(p)
    \/ ExecFails(p)
    \/ ExecSqlite(p)
    \/ ExecMysql(p)
    \/ SignAndReply(p)
    \/ RecordIssuance(p)

Spec == Init /\ [][Next]_vars

\* ------------------------------------------------ the mapping sync job

\* RecordGitHubMapping up to and including the DELETE statement.  A
\* statement that fails (refused by the server, or execErr) changes
\* nothing and the call returns "error deleting mappings".
RecordGitHubMappingDelete ==
  /\ sync.pc = "idle"
  /\ sync.calls < MaxSyncCalls
  /\ \E mapping \in MappingInputs, execErr \in BOOLEAN :
       \E order \in RangeOrders(mapping) :
         LET called == [pc |-> "idle", mapping |-> mapping, order |-> order,
                        before |-> github_user_mappings,
                        calls |-> sync.calls + 1, fault |-> execErr,
                        ret |-> "none"]
         IN  IF execErr \/ ~StatementParses(deleteEntries(order))
             THEN /\ github_user_mappings' = github_user_mappings
                  /\ sync' = [called EXCEPT !.ret = "error deleting mappings"]
             ELSE /\ github_user_mappings' =
                       DeleteNotIn(github_user_mappings, deleteValues(order))
                  /\ sync' = [called EXCEPT !.pc = "insert"]
  /\ UNCHANGED <<enrollVars, conf, qry>>

\* RecordGitHubMapping: the REPLACE statement and the return.
RecordGitHubMappingInsert ==
  /\ sync.pc = "insert"
  /\ \E execErr \in BOOLEAN :
       IF execErr \/ ~StatementParses(insertEntries(sync.order))
       THEN /\ github_user_mappings' = github_user_mappings
            /\ sync' = [sync EXCEPT !.pc = "idle", !.fault = execErr,
                                    !.ret = "error recording mapping"]
       ELSE /\ github_user_mappings' =
                 ReplaceInto(github_user_mappings,
                             insertValues(sync.mapping, sync.order))
            /\ sync' = [sync EXCEPT !.pc = "idle", !.ret = "ok"]
  /\ UNCHANGED <<enrollVars, conf, qry>>

\* QueryGitHubMapping(ssoIdentity), at any time.
QueryGitHubMapping ==
  /\ \E ssoIdentity \in Identities :
       LET got == QueryRow(github_user_mappings, ssoIdentity)
       IN  qry' = [ssoIdentity |-> ssoIdentity, githubUser |-> got.githubUser,
                   err |-> got.err, during |-> sync.pc, calls |-> sync.calls]
  /\ UNCHANGED <<enrollVars, conf, github_user_mappings, sync>>

\* ------------------------------------------------------ signHost on its own

\* One call signHost(hostname, serial, pubkey) under the configuration conf.
SignHostCall(p) ==
  /\ pc[p] = "idle"
  /\ \E h \in Hostnames, serial \in Procs, k \in Keys :
       /\ req' = [req EXCEPT ![p] = [NoReq EXCEPT !.op = "sign",
                                       !.hostname = h, !.key = k]]
       /\ result' = [result EXCEPT ![p] = serial]
       /\ cert' = [cert EXCEPT ![p] = signHost(h, serial, k)]
  /\ pc' = [pc EXCEPT ![p] = "done"]
  /\ UNCHANGED <<driver, hostkeys, nextId, body, bodyRead, pubkey, resp, writes>>
  /\ UNCHANGED <<conf, github_user_mappings, sync, qry>>

InitSign ==
  /\ driver = "mysql"
  /\ hostkeys = {}
  /\ nextId = 1
  /\ pc = [p \in Procs |-> "idle"]
  /\ req = [p \in Procs |-> NoReq]
  /\ body = [p \in Procs |-> << >>]
  /\ bodyRead = [p \in Procs |-> FALSE]
  /\ pubkey = [p \in Procs |-> NoKey]
  /\ result = [p \in Procs |-> 0]
  /\ cert = [p \in Procs |-> NoCert]
  /\ resp = [p \in Procs |-> NoResp]
  /\ writes = [p \in Procs |-> 0]
  /\ conf \in ConfInputs
  /\ github_user_mappings = {}
  /\ sync = SyncIdle
  /\ qry = NoQuery

NextSign == \E p \in Procs : SignHostCall(p)

SpecSign == InitSign /\ [][NextSign]_vars

InitMapping ==
  /\ driver = "mysql"
  /\ hostkeys = {}
  /\ nextId = 1
  /\ pc = [p \in Procs |-> "idle"]
  /\ req = [p \in Procs |-> NoReq]
  /\ body = [p \in Procs |-> << >>]
  /\ bodyRead = [p \in Procs |-> FALSE]
  /\ pubkey = [p \in Procs |-> NoKey]
  /\ result = [p \in Procs |-> 0]
  /\ cert = [p \in Procs |-> NoCert]
  /\ resp = [p \in Procs |-> NoResp]
  /\ writes = [p \in Procs |-> 0]
  /\ conf = DefaultConf
  /\ github_user_mappings = {}
  /\ sync = SyncIdle
  /\ qry = NoQuery

NextMapping ==
  \/ RecordGitHubMappingDelete
  \/ RecordGitHubMappingInsert
  \/ QueryGitHubMapping

SpecMapping == InitMapping /\ [][NextMapping]_vars


\* ================================================================ claims

\* p is an Enroll request that carries no verified chain
Unauthenticated(p) == req[p].op = "enroll" /\ Len(req[p].chains) = 0

\* p is an Enroll request whose first verified chain's leaf does not assert
\* the requested hostname
Mismatched(p) ==
  /\ req[p].op = "enroll"
  /\ Len(req[p].chains) > 0
  /\ req[p].hostname \notin req[p].chains[1][1]

\* C1: a request without a verified client certificate chain is answered
\* 401; its body is never read, it applies no storage statement and no
\* certificate is signed for it.
C1_UnauthenticatedRejectedBeforeRead ==
  \A p \in Procs :
    Unauthenticated(p) =>
      /\ pc[p] = "done"
      /\ resp[p].status = StatusUnauthorized
      /\ ~bodyRead[p]
      /\ writes[p] = 0
      /\ cert[p] = NoCert

C1_Witness ==
  \E p \in Procs :
    /\ Unauthenticated(p)
    /\ pc[p] = "done"
    /\ resp[p].status = StatusUnauthorized

\* C2: whenever Enroll handles a request for a hostname that the leaf of
\* the first verified chain does not assert, that step answers 403 and
\* leaves the hostkeys table as it was; such a request never applies a
\* storage statement.
C2_MismatchForbiddenNoWrite ==
  /\ [][\A p \in Procs :
          (pc[p] = "idle" /\ pc'[p] # "idle"
             /\ req'[p].op = "enroll" /\ Len(req'[p].chains) > 0
             /\ req'[p].hostname \notin req'[p].chains[1][1])
          => /\ pc'[p] = "done"
             /\ resp'[p].status = StatusForbidden
             /\ hostkeys' = hostkeys
             /\ nextId' = nextId]_vars
  /\ [](\A p \in Procs :
          Mismatched(p) => /\ resp[p].status = StatusForbidden
                           /\ writes[p] = 0)

C2_Witness ==
  \E p \in Procs :
    /\ Mismatched(p)
    /\ pc[p] = "done"
    /\ resp[p].status = StatusForbidden
    /\ hostkeys # {}

\* C3: when the body of an authenticated, hostname-matching request does
\* not parse as a public key, the step that read it ends the request and
\* leaves the hostkeys table and its identifier counter as they were; the
\* request applies no storage statement and gets no certificate.
C3_UnparsableKeyNoSideEffect ==
  /\ [][\A p \in Procs :
          (pc[p] = "read" /\ pc'[p] # "read"
             /\ ParseAuthorizedKey(body'[p]) = NoKey)
          => /\ pc'[p] = "done"
             /\ hostkeys' = hostkeys
             /\ nextId' = nextId
             /\ cert'[p] = NoCert]_vars
  /\ [](\A p \in Procs :
          (req[p].op = "enroll" /\ bodyRead[p]
             /\ ParseAuthorizedKey(body[p]) = NoKey)
          => /\ pc[p] = "done"
             /\ resp[p].status # StatusOK
             /\ writes[p] = 0
             /\ cert[p] = NoCert)

C3_Witness ==
  \E p \in Procs :
    /\ req[p].op = "enroll"
    /\ clientAuthenticated(req[p].chains)
    /\ clientHostnameMatches(req[p].hostname, req[p].chains)
    /\ bodyRead[p]
    /\ body[p] = <<"#">>
    /\ pc[p] = "done"

\* ------------------------------------------------- helpers of C4 .. C10

\* p is an Enroll request that passed both AuthGate checks
Admitted(p) ==
  /\ req[p].op = "enroll"
  /\ Len(req[p].chains) > 0
  /\ req[p].hostname \in req[p].chains[1][1]

\* the step from the current state applied a storage statement of unit p
Wrote(p) == writes'[p] = writes[p] + 1

\* what unit p's write is for: principal, certificate type and key
PrincipalOf(p) == req[p].hostname
TypeOf(p) ==
  IF req[p].op = "record" THEN certTypeToMySQL(req[p].certType)
  ELSE DefaultCertType
KeyOf(p) == IF req[p].op = "record" THEN req[p].key ELSE pubkey[p]

\* the rows recorded for principal h and certificate type t
RowsOf(tbl, h, t) == {r \in tbl : r.issuedTo = h /\ r.cert_type = t}

\* C4: a request whose body was read but does not parse as a public key is
\* answered with a client error (4xx), not with the 500 of internal
\* errors.
C4_UnparsableKeyIsClientError ==
  \A p \in Procs :
    (Admitted(p) /\ pc[p] = "done" /\ bodyRead[p] /\ resp[p].err # "read"
       /\ ParseAuthorizedKey(body[p]) = NoKey)
    => /\ resp[p].status >= 400
       /\ resp[p].status < 500

\* C5: the hostkeys table holds at most one row per (principal, certType)
\* after any successful issuance writes, and a RecordIssuance call leaves
\* exactly one row for its (principal, certType), whose stored key is the
\* key of the call.
C5_OneRowPerPrincipalAndType ==
  /\ [](\A r1, r2 \in hostkeys :
          (r1.issuedTo = r2.issuedTo /\ r1.cert_type = r2.cert_type) => r1 = r2)
  /\ [][\A p \in Procs :
          (Wrote(p) /\ req'[p].op = "record")
          => \E r \in hostkeys' :
               /\ {x \in hostkeys' : x.hostname = req'[p].hostname
                                      /\ x.cert_type = r.cert_type} = {r}
               /\ r.hostname = req'[p].hostname
               /\ r.cert_type = certTypeToMySQL(req'[p].certType)
               /\ ParseAuthorizedKey(r.pubkey) = req'[p].key]_vars

\* C6: when an issuance is recorded (RecordIssuance for the host type, or
\* either branch of EnrollHost) for a principal that already has a row
\* holding another key, QueryHostkeys afterwards yields exactly one pair
\* for that hostname, and it carries the new key.
C6_NewKeyReplacesOldInQuery ==
  [][\A p \in Procs :
       (/\ Wrote(p)
        /\ TypeOf(p)' = mysqlHostCert
        /\ \E r \in RowsOf(hostkeys, PrincipalOf(p)', mysqlHostCert) :
             /\ ParseAuthorizedKey(r.pubkey) # KeyOf(p)'
             /\ ParseAuthorizedKey(r.hostname) # KeyOf(p)')
       => LET pairs == {i \in DOMAIN QueryHostkeys' :
                          QueryHostkeys'[i][1] = PrincipalOf(p)'}
          IN  /\ Cardinality(pairs) = 1
              /\ \A i \in pairs :
                   ParseAuthorizedKey(QueryHostkeys'[i][2]) = KeyOf(p)']_vars

\* C7: two successful storage writes for the same principal and
\* certificate type with different keys return different serials.
C7_ReenrollmentSerialFresh ==
  \A p, q \in Procs :
    (/\ p # q
     /\ writes[p] = 1 /\ writes[q] = 1
     /\ PrincipalOf(p) = PrincipalOf(q)
     /\ TypeOf(p) = TypeOf(q)
     /\ KeyOf(p) # KeyOf(q))
    => result[p] # result[q]

\* C8: when all units have finished and two or more enrollments for one
\* hostname ran without an injected failure (and nothing else wrote that
\* hostname), each of them was answered 200 and the table holds exactly
\* one row for the hostname, whose key is one of the submitted keys.
C8_SameHostConcurrentOneRow ==
  \A h \in Hostnames :
    LET E == {p \in Procs : Admitted(p) /\ req[p].hostname = h
                            /\ writes[p] = 1 /\ resp[p].err = ""}
    IN  (/\ \A p \in Procs : pc[p] = "done"
         /\ Cardinality(E) >= 2
         /\ \A p \in Procs \ E : writes[p] = 0 \/ req[p].hostname # h)
        => /\ \A p \in E : resp[p].status = StatusOK
           /\ \E r \in hostkeys :
                /\ {x \in hostkeys : x.hostname = h \/ x.issuedTo = h} = {r}
                /\ r.hostname = h
                /\ ParseAuthorizedKey(r.pubkey) \in {pubkey[p] : p \in E}

\* C9: the serial a storage write returns identifies a row of the table
\* that is the row of the write's principal and holds (in a text column)
\* the key that write committed.
C9_SerialIdentifiesWrittenRow ==
  [][\A p \in Procs :
       Wrote(p)
       => \E r \in hostkeys' :
            /\ r.id = result'[p]
            /\ r.issuedTo = PrincipalOf(p)'
            /\ \/ ParseAuthorizedKey(r.pubkey) = KeyOf(p)'
               \/ ParseAuthorizedKey(r.hostname) = KeyOf(p)']_vars

\* C10: enrollments for distinct hostnames that were answered 200 carry
\* distinct serials.
C10_DistinctHostsDistinctSerials ==
  \A p, q \in Procs :
    (/\ p # q
     /\ Admitted(p) /\ Admitted(q)
     /\ resp[p].status = StatusOK /\ resp[q].status = StatusOK
     /\ req[p].hostname # req[q].hostname)
    => cert[p].Serial # cert[q].Serial

\* ---------------------------------------------------------------- C11 - C13
\* The rows a mapping stands for.
RowsOfMapping(mapping) == {MappingRow(i, mapping[i]) : i \in DOMAIN mapping}

\* The last call of the sync job has returned.
Returned == sync.pc = "idle" /\ sync.calls > 0

\* C11: a call with an empty mapping over a non-empty table, with no
\* statement failing for outside reasons, removes every row and reports
\* success.
C11_EmptyMappingClearsTable ==
  (Returned /\ DOMAIN sync.mapping = {} /\ sync.before # {} /\ ~sync.fault)
    => (sync.ret = "ok" /\ github_user_mappings = {})

\* C12: once a call has returned success, the table is exactly the given
\* mapping whatever it held before, and a query made after the return
\* answers the given username for each identity of the mapping.
C12_SuccessfulCallLeavesExactlyTheMapping ==
  (Returned /\ sync.ret = "ok")
    => /\ github_user_mappings = RowsOfMapping(sync.mapping)
       /\ \A i \in DOMAIN sync.mapping :
            QueryRow(github_user_mappings, i) =
              [githubUser |-> sync.mapping[i], err |-> ""]
       /\ (qry.during = "idle" /\ qry.calls = sync.calls
             /\ qry.ssoIdentity \in DOMAIN sync.mapping)
            => (qry.githubUser = sync.mapping[qry.ssoIdentity] /\ qry.err = "")

\* A successful call over a table that held an identity the mapping drops
\* and an identity the mapping gives another username, followed by a query.
C12_Witness ==
  /\ Returned /\ sync.ret = "ok"
  /\ \E r \in sync.before : r.sso_identity \notin DOMAIN sync.mapping
  /\ \E r \in sync.before :
       /\ r.sso_identity \in DOMAIN sync.mapping
       /\ sync.mapping[r.sso_identity] # r.github_username
  /\ qry.during = "idle" /\ qry.calls = sync.calls
  /\ qry.ssoIdentity \in DOMAIN sync.mapping

\* C13: from the start of a call on, the table is either what it was before
\* the call or the full new mapping, in every state.
C13_MappingReplacedAsOneUnit ==
  sync.calls > 0
    => \/ github_user_mappings = sync.before
       \/ github_user_mappings = RowsOfMapping(sync.mapping)

\* ---------------------------------------------------------------------- C14
\* The aliases configured for a hostname, none when it has no entry.
AliasesOf(h) == IF h \in DOMAIN conf.Aliases THEN conf.Aliases[h] ELSE << >>

\* h is some prefix followed by a non-empty suffix sfx.
EndsWithNonEmpty(h, sfx) ==
  sfx # << >> /\ \E n \in 0..Len(h) : SubSeq(h, 1, n) \o sfx = h

\* C14: the principal list of a signed certificate is the hostname, then
\* the hostname without the suffix exactly when the suffix is non-empty and
\* the hostname ends with it, then the hostname's aliases in configured
\* order; db1.internal.example.com with suffix .internal.example.com and no
\* aliases gives [db1.internal.example.com, db1].
C14_PrincipalOrder ==
  \A p \in Procs :
    req[p].op = "sign" =>
      LET h == req[p].hostname
          L == cert[p].ValidPrincipals
          al == AliasesOf(h)
          k == IF EndsWithNonEmpty(h, conf.StripSuffix) THEN 2 ELSE 1
      IN  /\ Len(L) = k + Len(al)
          /\ L[1] = h
          /\ k = 2 => L[2] \o conf.StripSuffix = h
          /\ \A i \in 1..Len(al) : L[k + i] = al[i]
          /\ (h = H1 /\ conf.StripSuffix = <<".internal", ".example.com">>
                /\ al = << >>)
               => L = <<H1, <<"db1">> >>

\* signHost has produced the list of the example.
C14_Witness ==
  \E p \in Procs :
    /\ req[p].op = "sign" /\ req[p].hostname = H1
    /\ conf.StripSuffix = <<".internal", ".example.com">>
    /\ H1 \notin DOMAIN conf.Aliases
    /\ cert[p].ValidPrincipals = <<H1, <<"db1">> >>

\* ---------------------------------------------------------------- C15 - C16
\* Unit p is an Enroll request.
Enrolling(p) == req[p].op = "enroll"

\* C15: a certificate is signed and a success response written only by a
\* request whose own upsert has succeeded before that step and has given an
\* identifier; a request whose storage write failed ends with an internal
\* error, unsigned, and stays so.
C15_NoCertificateBeforeStorageWrite ==
  /\ [][\A p \in Procs :
          (cert'[p] # cert[p] \/ (resp'[p].status = StatusOK /\ resp[p] # resp'[p]))
            => /\ writes[p] = 1 /\ writes'[p] = 1
               /\ cert'[p].Serial = result[p]]_vars
  /\ [](\A p \in Procs :
          /\ (Enrolling(p) /\ (cert[p] # NoCert \/ resp[p].status = StatusOK))
               => writes[p] = 1
          /\ (Enrolling(p) /\ writes[p] = 0 /\ resp[p].err = "exec")
               => /\ resp[p].status = StatusInternalServerError
                  /\ cert[p] = NoCert
                  /\ pc[p] = "done")

\* One request has been answered with its certificate after its write and
\* another has ended on a failed storage write.
C15_Witness ==
  \E p, q \in Procs :
    /\ Enrolling(p) /\ resp[p].status = StatusOK /\ cert[p] # NoCert
    /\ writes[p] = 1
    /\ Enrolling(q) /\ resp[q].err = "exec" /\ writes[q] = 0 /\ pc[q] = "done"

\* C16: the body of an internal-error response is a generic message and
\* never holds the text of the error that caused it.
C16_InternalErrorTextNotReturned ==
  \A p \in Procs :
    (Enrolling(p) /\ resp[p].status = StatusInternalServerError)
      => resp[p].err \notin Range(resp[p].body)

\* ---------------------------------------------------------------------- C17
\* C17: the certificate of a successful Enroll carries the key parsed from
\* the request's body, the identifier its storage write returned as serial,
\* the host certificate type, and as key-id the hostname that matched the
\* client certificate.
C17_CertificateBindsRequestData ==
  \A p \in Procs :
    (Enrolling(p) /\ resp[p].status = StatusOK)
      => /\ cert[p].Key = ParseAuthorizedKey(body[p])
         /\ cert[p].Key \in Keys
         /\ writes[p] = 1
         /\ cert[p].Serial = result[p]
         /\ resp[p].serial = result[p]
         /\ cert[p].CertType = sshHostCert
         /\ cert[p].KeyId = req[p].hostname
         /\ VerifyHostname(req[p].chains[1][1], cert[p].KeyId)
         /\ resp[p].body[1] = KeyType(ParseAuthorizedKey(body[p]))

\* A certificate issued for the second key, sent behind a blank line, to a
\* client that presented two verified chains, with a non-zero serial.
C17_Witness ==
  \E p \in Procs :
    /\ Enrolling(p) /\ resp[p].status = StatusOK
    /\ body[p] = <<"\n", "k2", " c">> /\ cert[p].Key = "k2"
    /\ Len(req[p].chains) = 2
    /\ cert[p].Serial > 0

\* ---------------------------------------------------------------------- C18
HostRows == {r \in hostkeys : r.cert_type = mysqlHostCert}
UserRows == {r \in hostkeys : r.cert_type = mysqlUserCert}

\* How often the pair <<hostname, pubkey>> occurs in a result.
Occurrences(q, hostname, pk) ==
  Cardinality({i \in DOMAIN q : q[i] = <<hostname, pk>>})

\* C18: the result of QueryHostkeys has one entry per host-type row, the
\* row's (hostname, pubkey), and nothing else: with user-type rows in the
\* table it has exactly as many entries as there are host-type rows, and
\* each host-type row occurs once.
C18_QueryYieldsExactlyHostRows ==
  LET q == QueryHostkeys
  IN  /\ Len(q) = Cardinality(HostRows)
      /\ \A i \in DOMAIN q :
           \E r \in HostRows : q[i] = <<r.hostname, r.pubkey>>
      /\ \A r \in HostRows : Occurrences(q, r.hostname, r.pubkey) = 1
      /\ \A p \in Procs :
           (req[p].op = "record" /\ req[p].certType = sshHostCert
              /\ writes[p] = 1)
             => \E i \in DOMAIN q : q[i][1] = req[p].hostname

\* The table holds a user-type row and a host-type row for one principal,
\* both written by RecordIssuance, and the query has fewer entries than
\* the table has rows.
C18_Witness ==
  /\ \E p, q \in Procs :
       /\ req[p].op = "record" /\ req[p].certType = sshUserCert /\ writes[p] = 1
       /\ req[q].op = "record" /\ req[q].certType = sshHostCert /\ writes[q] = 1
       /\ req[p].hostname = req[q].hostname
  /\ \E r \in HostRows, u \in UserRows : r.hostname = u.hostname
  /\ Len(QueryHostkeys) < Cardinality(hostkeys)

\* ---------------------------------------------------------------------- C19
\* Unit p's step from the current state is a failure of a step behind its
\* upsert: LastInsertId, ParseDuration, rand.Read or SignCert.
FailsAfterUpsert(p) ==
  /\ Enrolling(p) /\ pc[p] = "sign" /\ pc'[p] = "done"
  /\ resp'[p].status # StatusOK

\* The row whose hostname column is h holds key k in its pubkey column.
RowHolds(tbl, h, k) ==
  \E r \in tbl : r.hostname = h /\ ParseAuthorizedKey(r.pubkey) = k

\* C19: when a step behind the upsert fails, Enroll answers with an
\* internal error and no certificate, the table is left as the upsert made
\* it, and the row of the request's hostname holds the submitted key (or
\* the key of another writer of the same hostname since).
C19_FailureAfterUpsertKeepsNewKey ==
  [][\A p \in Procs :
       FailsAfterUpsert(p)
         => /\ resp'[p].status = StatusInternalServerError
            /\ cert'[p] = NoCert
            /\ writes[p] = 1
            /\ hostkeys' = hostkeys
            /\ \/ RowHolds(hostkeys', req[p].hostname, pubkey[p])
               \/ \E q \in Procs \ {p} :
                    /\ writes[q] = 1 /\ TypeOf(q) = mysqlHostCert
                    /\ PrincipalOf(q) = req[p].hostname
                    /\ RowHolds(hostkeys', req[p].hostname, KeyOf(q))]_vars

\* ---------------------------------------------------------------------- C20
\* Unit p's step from the current state is a RecordIssuance call with a
\* certificate type that is neither host nor user.
RecordsUnknownType(p) ==
  /\ pc[p] = "idle" /\ req'[p].op = "record"
  /\ req'[p].certType \notin {sshHostCert, sshUserCert}

\* C20: RecordIssuance with a certificate type other than host or user
\* returns serial 0 and the unknown-type error, executes no statement and
\* leaves the hostkeys table as it was.
C20_UnknownCertTypeWritesNothing ==
  /\ [][\A p \in Procs :
          RecordsUnknownType(p)
            => /\ resp'[p].serial = 0
               /\ resp'[p].err = "storage: unknown ssh cert type"
               /\ writes'[p] = writes[p]
               /\ hostkeys' = hostkeys
               /\ nextId' = nextId]_vars
  /\ [](\A p \in Procs :
          (req[p].op = "record"
             /\ req[p].certType \notin {sshHostCert, sshUserCert})
            => (resp[p].serial = 0 /\ resp[p].err # "" /\ writes[p] = 0))

\* A call with the unknown type has returned over a table that holds rows.
C20_Witness ==
  \E p \in Procs :
    /\ req[p].op = "record" /\ pc[p] = "done"
    /\ req[p].certType \notin {sshHostCert, sshUserCert}
    /\ resp[p].err = "storage: unknown ssh cert type"
    /\ hostkeys # {}

====
